---- MODULE Spec2Model ----
(***************************************************************************)
(* A model of the gateway's write correlator (the Cassie singleton) and of *)
(* the per-connection WebSocket handler of the things controller.          *)
(*                                                                         *)
(* Node runs one handler at a time: every action below is one handler (or  *)
(* one promise continuation together with the microtasks it triggers),     *)
(* run to completion.                                                      *)
(***************************************************************************)
EXTENDS Integers, Sequences, FiniteSets, TLC

(***************************************************************************)
(* Bounds of the model.                                                    *)
(***************************************************************************)
\* number of calls of Cassie.write
MaxWrites == 2
\* length the finished array may grow to
MaxFinished == 2
\* largest value of Date.now()
MaxTime == 1
\* number of PROPERTY_CHANGED events a connection handles
MaxChanges == 1
\* the 'message' events of its socket and the events of its things that one
\* connection handles, together
MaxInputs == 2
\* the consistencyError events that are counted
MaxErrors == 1
\* the length of cassie.requests, cassie.notifications and cassie.dbWrites
\* when a report is asked for
MaxLen == 2
\* the largest value a request, a notification or a write carries then
MaxValue == 2
\* the latest Date.now() of a run whose summary is asked for
MaxStamp == 2

WriteIds == 1..MaxWrites

\* values written to a property
Values == {0, 1}

(***************************************************************************)
(* Strings are sequences of one-character strings, so that slice and       *)
(* indexOf are computed and not assumed.                                   *)
(***************************************************************************)
\* the delay tokens the server puts in warnings[1]
Tokens == {<<"a">>, <<"b">>}

\* the messages of the server's finishedProcessing event
FinishedMessages == {<<"f", " ", "a">>, <<"f", " ", "b">>, <<"b">>}

\* String.prototype.indexOf(' '), 0-based, -1 when there is no space
IndexOfSpace(msg) ==
  IF \E i \in 1..Len(msg) : msg[i] = " "
    THEN (CHOOSE i \in 1..Len(msg) :
            msg[i] = " " /\ \A j \in 1..(i - 1) : msg[j] # " ") - 1
    ELSE -1

\* String.prototype.slice(from), from a 0-based index
Slice(msg, from) == SubSeq(msg, from + 1, Len(msg))

\* let ts = msg.slice(msg.indexOf(' ') + 1)
TimestampOf(msg) == Slice(msg, IndexOfSpace(msg) + 1)

\* Array.prototype.includes
Includes(arr, x) == \E i \in 1..Len(arr) : arr[i] = x

\* Array.prototype.indexOf, 1-based here, of an element the array includes
IndexOf(arr, x) == CHOOSE i \in 1..Len(arr) : arr[i] = x /\ \A j \in 1..(i - 1) : arr[j] # x

\* Array.prototype.splice(index, 1)
Splice(arr, index) == SubSeq(arr, 1, index - 1) \o SubSeq(arr, index + 1, Len(arr))

\* an object without keys: {}
EmptyMap == [k \in {} |-> k]

\* how often x occurs in arr
Occurrences(arr, x) == Cardinality({i \in 1..Len(arr) : arr[i] = x})

VARIABLES
  \* ---- Cassie's fields
  count,                 \* this.count
  requests,              \* this.requests
  notifications,         \* this.notifications
  intervals,             \* this.intervals
  pending,               \* this.pending: ts -> the write awaiting that deferred
  finished,              \* this.finished
  localDetectionErrors,  \* this.localDetectionErrors
  globalDetectionErrors, \* this.globalDetectionErrors
  notPersistedErrors,    \* this.notPersistedErrors
  delayedRequests,       \* this.delayedRequests
  dbWrites,              \* this.dbWrites
  \* ---- one record per call of Cassie.write
  wpc,                   \* where the call is
  wts,                   \* its local ts (<<>> while it has none)
  wstart,                \* its interval.start
  wresult,               \* what this.execute gave its .then ("none" before)
  wpath,                 \* the branch that called its resolve ("none" before)
  resolveCalls,          \* how often its resolve() was called
  recorded,              \* how often its interval was pushed
  \* ---- one WebSocket connection: websocketHandler's closure
  handler,               \* whether websocketHandler ran ("notrun", "returned", "ran")
  thingId,               \* request.params.thingId
  readyState,            \* websocket.readyState
  sent,                  \* the messages websocket.send accepted, by message
  subscribedEventNames,  \* subscribedEventNames, as the set of its keys
  thingCleanups,         \* thingCleanups: thing id -> the addThing call that stored it
  thingAddedL,           \* onThingAdded is a THING_ADDED listener of Things
  propertyChangedL,      \* onPropertyChanged is a PROPERTY_CHANGED listener
  actionStatusL,         \* onActionStatus is an ACTION_STATUS listener
  heartbeat,             \* heartbeatInterval is set
  eventSubs,             \* per thing: how often onEvent is subscribed through it
  connectedSubs,         \* per thing: the addThing calls whose onConnected is subscribed
  removedSubs,           \* per thing: the addThing calls whose onRemoved is subscribed
  modifiedSubs,          \* per thing: the addThing calls whose onModified is subscribed
  removeCalls,           \* per addThing call: how often its thingCleanup ran
  cleanups,              \* how often cleanup ran
  lookup,                \* Things.getThing / Things.getThings: "none", "pending",
                         \* "done" once resolved, "rejected" once rejected
  snapshotReads,         \* per thing: AddonManager.getProperty calls of addThing in flight
  changeReads,           \* per thing: property.getValue calls of onPropertyChanged in flight
  \* ---- the environment
  things,                \* the ids in Things
  announce,              \* the things created whose THING_ADDED is still to be emitted
  gone,                  \* the things removed
  now,                   \* Date.now()
  \* ---- the 'message' listener of the connection
  received,              \* how many 'message' events the listener has handled
  ops,                   \* per message handled: the calls it left in flight
  raised,                \* how many events the things have raised
  \* ---- the report of the PUT handler
  response               \* the body of the last response.json of a report

cassieVars == <<count, requests, notifications, intervals, pending, finished,
                localDetectionErrors, globalDetectionErrors, notPersistedErrors,
                delayedRequests, dbWrites>>
writeVars == <<wpc, wts, wstart, wresult, wpath, resolveCalls, recorded>>
hubVars == <<handler, thingId, readyState, sent, subscribedEventNames, thingCleanups,
             thingAddedL, propertyChangedL, actionStatusL, heartbeat,
             eventSubs, connectedSubs, removedSubs, modifiedSubs, removeCalls,
             cleanups, lookup, snapshotReads, changeReads>>
envVars == <<things, announce, gone>>
msgVars == <<received, ops, raised>>
vars == <<cassieVars, writeVars, hubVars, envVars, now, msgVars, response>>

\* no response was sent by the PUT handler
NoResponse == [made |-> FALSE, threw |-> FALSE]

\* the constructor of Cassie
CassieInit ==
  /\ count = 0
  /\ requests = <<>>
  /\ notifications = <<>>
  /\ intervals = <<>>
  /\ pending = EmptyMap
  /\ finished = <<>>
  /\ localDetectionErrors = 0
  /\ globalDetectionErrors = 0
  /\ notPersistedErrors = 0
  /\ delayedRequests = 0
  /\ dbWrites = <<>>

WriteInit ==
  /\ wpc = [w \in WriteIds |-> "idle"]
  /\ wts = [w \in WriteIds |-> <<>>]
  /\ wstart = [w \in WriteIds |-> 0]
  /\ wresult = [w \in WriteIds |-> "none"]
  /\ wpath = [w \in WriteIds |-> "none"]
  /\ resolveCalls = [w \in WriteIds |-> 0]
  /\ recorded = [w \in WriteIds |-> 0]


\* Date.now() advances between handlers
Tick ==
  /\ now < MaxTime
  /\ now' = now + 1
  /\ UNCHANGED <<cassieVars, writeVars, hubVars, envVars>>
  /\ UNCHANGED <<msgVars, response>>

\* Finish with start and finish taken for each other
FinishSwapped(w, path) ==
  /\ intervals' = Append(intervals, [start |-> now, finish |-> wstart[w], id |-> w])
  /\ wpc' = [wpc EXCEPT ![w] = "fulfilled"]
  /\ wpath' = [wpath EXCEPT ![w] = path]
  /\ recorded' = [recorded EXCEPT ![w] = @ + 1]
  /\ resolveCalls' = [resolveCalls EXCEPT ![w] = @ + 1]

\* interval.finish = Date.now(); this.intervals.push(interval); resolve();
\* as done for write w, whose promise then counts as fulfilled
Finish(w, path) ==
  /\ intervals' = Append(intervals, [start |-> wstart[w], finish |-> now, id |-> w])
  /\ wpc' = [wpc EXCEPT ![w] = "fulfilled"]
  /\ wpath' = [wpath EXCEPT ![w] = path]
  /\ recorded' = [recorded EXCEPT ![w] = @ + 1]
  /\ resolveCalls' = [resolveCalls EXCEPT ![w] = @ + 1]

\* Cassie.write up to the call of this.execute: the synchronous part
Write(w, value) ==
  /\ wpc[w] = "idle"
  /\ \A u \in WriteIds : u < w => wpc[u] # "idle"
  /\ dbWrites' = Append(dbWrites, value)
  /\ wstart' = [wstart EXCEPT ![w] = now]
  /\ wpc' = [wpc EXCEPT ![w] = "executing"]
  /\ UNCHANGED <<count, requests, notifications, intervals, pending, finished,
                 localDetectionErrors, globalDetectionErrors, notPersistedErrors,
                 delayedRequests, wts, wresult, wpath, resolveCalls, recorded, now>>
  /\ UNCHANGED <<hubVars, envVars>>
  /\ UNCHANGED <<msgVars, response>>

\* the .then of this.execute, the result carrying no DELAY warning
AckNoDelay(w) ==
  /\ wpc[w] = "executing"
  /\ wresult' = [wresult EXCEPT ![w] = "result"]
  /\ Finish(w, "nodelay")
  /\ UNCHANGED <<count, requests, notifications, pending, finished,
                 localDetectionErrors, globalDetectionErrors, notPersistedErrors,
                 delayedRequests, dbWrites, wts, wstart, now>>
  /\ UNCHANGED <<hubVars, envVars>>
  /\ UNCHANGED <<msgVars, response>>

\* AckFinished with the else of its if lost: the write is registered as well
AckFinishedFalls(w, ts) ==
  /\ finished' = Splice(finished, IndexOf(finished, ts))
  /\ Finish(w, "finished")
  /\ pending' = [t \in DOMAIN pending \cup {ts} |-> IF t = ts THEN w ELSE pending[t]]

\* AckFinished with the splice lost: the marker stays
AckFinishedNoSplice(w, ts) ==
  /\ Finish(w, "finished")
  /\ UNCHANGED <<pending, finished>>

\* the branch of the .then taken when this.finished.includes(ts)
AckFinished(w, ts) ==
  /\ finished' = Splice(finished, IndexOf(finished, ts))
  /\ Finish(w, "finished")
  /\ UNCHANGED pending

\* the branch taken otherwise: this.pendingExecution(ts) and its .then
AckPending(w, ts) ==
  /\ pending' = [t \in DOMAIN pending \cup {ts} |-> IF t = ts THEN w ELSE pending[t]]
  /\ wpc' = [wpc EXCEPT ![w] = "suspended"]
  /\ UNCHANGED <<finished, intervals, wpath, recorded, resolveCalls>>

\* AckDelay with the test of this.finished lost
AckDelayUnchecked(w, ts) ==
  /\ wpc[w] = "executing"
  /\ delayedRequests' = delayedRequests + 1
  /\ wresult' = [wresult EXCEPT ![w] = "result"]
  /\ wts' = [wts EXCEPT ![w] = ts]
  /\ AckPending(w, ts)
  /\ UNCHANGED <<count, requests, notifications,
                 localDetectionErrors, globalDetectionErrors, notPersistedErrors,
                 dbWrites, wstart, now>>
  /\ UNCHANGED <<hubVars, envVars>>
  /\ UNCHANGED <<msgVars, response>>

\* the .then of this.execute, the result carrying warnings ["DELAY", ts]
AckDelay(w, ts) ==
  /\ wpc[w] = "executing"
  /\ delayedRequests' = delayedRequests + 1
  /\ wresult' = [wresult EXCEPT ![w] = "result"]
  /\ wts' = [wts EXCEPT ![w] = ts]
  /\ IF Includes(finished, ts) THEN AckFinished(w, ts) ELSE AckPending(w, ts)
  /\ UNCHANGED <<count, requests, notifications,
                 localDetectionErrors, globalDetectionErrors, notPersistedErrors,
                 dbWrites, wstart, now>>
  /\ UNCHANGED <<hubVars, envVars>>
  /\ UNCHANGED <<msgVars, response>>

\* this.client.execute rejects: execute logs and returns undefined, and the
\* .then of write throws on result.info, so that neither resolve nor reject
\* of the promise write returned is ever called
ExecuteFails(w) ==
  /\ wpc[w] = "executing"
  /\ wresult' = [wresult EXCEPT ![w] = "undefined"]
  /\ wpc' = [wpc EXCEPT ![w] = "abandoned"]
  /\ UNCHANGED <<cassieVars, wts, wstart, wpath, resolveCalls, recorded, now>>
  /\ UNCHANGED <<hubVars, envVars>>
  /\ UNCHANGED <<msgVars, response>>

\* the branch of the finishedProcessing handler taken when this.pending[ts]:
\* the deferred is resolved, its .then runs for the write that created it
SignalPending(ts) ==
  /\ Finish(pending[ts], "signal")
  /\ pending' = [t \in DOMAIN pending \ {ts} |-> pending[t]]
  /\ UNCHANGED finished

\* the branch taken otherwise
SignalUnknown(ts) ==
  /\ Len(finished) < MaxFinished
  /\ finished' = Append(finished, ts)
  /\ UNCHANGED <<pending, intervals, wpc, wpath, recorded, resolveCalls>>

\* this.client.on('finishedProcessing', ...)
FinishedProcessing(msg) ==
  /\ LET ts == TimestampOf(msg)
     IN IF ts \in DOMAIN pending THEN SignalPending(ts) ELSE SignalUnknown(ts)
  /\ UNCHANGED <<count, requests, notifications,
                 localDetectionErrors, globalDetectionErrors, notPersistedErrors,
                 delayedRequests, dbWrites, wts, wstart, wresult, now>>
  /\ UNCHANGED <<hubVars, envVars>>
  /\ UNCHANGED <<msgVars, response>>

\* the prefixes msg.startsWith is asked for, a message being the sequence
\* of its words
LocalPrefix == <<"Local", "Detection">>
ConcurrentPrefix == <<"Global", "detection", "concurrent", "writes">>
NotPersistedPrefix == <<"Global", "detection", "update", "not", "persisted">>

\* the messages of the consistencyError events
ErrorMessages ==
  {LocalPrefix \o <<"k">>, ConcurrentPrefix, NotPersistedPrefix \o <<"k">>,
   <<"Global", "detection">>, <<"no">> \o LocalPrefix, <<"Local">>, <<>>}

\* msg.startsWith(prefix)
StartsWith(msg, prefix) ==
  Len(msg) >= Len(prefix) /\ SubSeq(msg, 1, Len(prefix)) = prefix

\* msg.includes(prefix)
Contains(msg, prefix) ==
  \E i \in 1..Len(msg) :
    i + Len(prefix) - 1 <= Len(msg) /\ SubSeq(msg, i, i + Len(prefix) - 1) = prefix

\* ErrorCounter with includes for startsWith
ErrorCounterContains(msg) ==
  IF Contains(msg, LocalPrefix) THEN "local"
  ELSE IF Contains(msg, ConcurrentPrefix) THEN "concurrent"
  ELSE IF Contains(msg, NotPersistedPrefix) THEN "notPersisted"
  ELSE "none"

\* the counter the if chain of the consistencyError handler picks
ErrorCounter(msg) ==
  IF StartsWith(msg, LocalPrefix) THEN "local"
  ELSE IF StartsWith(msg, ConcurrentPrefix) THEN "concurrent"
  ELSE IF StartsWith(msg, NotPersistedPrefix) THEN "notPersisted"
  ELSE "none"

\* ConsistencyError leaving only the counter it picks above zero
ConsistencyErrorExclusive(msg) ==
  /\ localDetectionErrors + globalDetectionErrors + notPersistedErrors < MaxErrors
  /\ localDetectionErrors' = IF ErrorCounter(msg) = "local" THEN localDetectionErrors + 1 ELSE 0
  /\ globalDetectionErrors' = IF ErrorCounter(msg) = "concurrent" THEN globalDetectionErrors + 1 ELSE 0
  /\ notPersistedErrors' = IF ErrorCounter(msg) = "notPersisted" THEN notPersistedErrors + 1 ELSE 0
  /\ delayedRequests' = 0
  /\ UNCHANGED <<count, requests, notifications, intervals, pending, finished, dbWrites>>
  /\ UNCHANGED <<writeVars, hubVars, envVars, now, msgVars, response>>

\* this.client.on('consistencyError', ...)
ConsistencyError(msg) ==
  /\ localDetectionErrors + globalDetectionErrors + notPersistedErrors < MaxErrors
  /\ localDetectionErrors' =
       IF ErrorCounter(msg) = "local" THEN localDetectionErrors + 1 ELSE localDetectionErrors
  /\ globalDetectionErrors' =
       IF ErrorCounter(msg) = "concurrent" THEN globalDetectionErrors + 1
                                           ELSE globalDetectionErrors
  /\ notPersistedErrors' =
       IF ErrorCounter(msg) = "notPersisted" THEN notPersistedErrors + 1
                                             ELSE notPersistedErrors
  /\ UNCHANGED <<count, requests, notifications, intervals, pending, finished,
                 delayedRequests, dbWrites>>
  /\ UNCHANGED <<writeVars, hubVars, envVars, now, msgVars, response>>

\* Reset with cassie.dbWrites = [] lost
ResetKeepsWrites ==
  /\ count' = 0
  /\ requests' = <<>>
  /\ notifications' = <<>>
  /\ intervals' = <<>>
  /\ delayedRequests' = 0
  /\ localDetectionErrors' = 0
  /\ globalDetectionErrors' = 0
  /\ notPersistedErrors' = 0
  /\ UNCHANGED <<pending, finished, writeVars, now, dbWrites>>
  /\ UNCHANGED <<hubVars, envVars>>
  /\ UNCHANGED <<msgVars, response>>

\* PUT with sequenceNumber -2
Reset ==
  /\ count' = 0
  /\ requests' = <<>>
  /\ notifications' = <<>>
  /\ intervals' = <<>>
  /\ delayedRequests' = 0
  /\ localDetectionErrors' = 0
  /\ globalDetectionErrors' = 0
  /\ notPersistedErrors' = 0
  /\ dbWrites' = <<>>
  /\ UNCHANGED <<pending, finished, writeVars, now>>
  /\ UNCHANGED <<hubVars, envVars>>
  /\ UNCHANGED <<msgVars, response>>

(***************************************************************************)
(* The PUT handler of the things controller: the report, sequenceNumber -1. *)
(***************************************************************************)
\* what the comparator of a sort orders x by: a.start - b.start when
\* byStart, a - b otherwise
KeyOf(x, byStart) == IF byStart THEN x.start ELSE x

\* arr with x put behind the last element whose key is not greater: one
\* step of a stable ascending sort
RECURSIVE InsertSorted(_, _, _)
InsertSorted(arr, x, byStart) ==
  IF arr = <<>> THEN <<x>>
  ELSE IF KeyOf(arr[Len(arr)], byStart) <= KeyOf(x, byStart) THEN Append(arr, x)
  ELSE Append(InsertSorted(SubSeq(arr, 1, Len(arr) - 1), x, byStart), arr[Len(arr)])

\* arr.sort(comparator)
RECURSIVE SortBy(_, _)
SortBy(arr, byStart) ==
  IF arr = <<>> THEN <<>>
  ELSE InsertSorted(SortBy(SubSeq(arr, 1, Len(arr) - 1), byStart), arr[Len(arr)], byStart)

\* the values j with from <= j < to, ascending
FromTo(from, to) == [k \in 1..(to - from) |-> from + k - 1]

\* the for loop over sortedWrites from index i (0-based) on
RECURSIVE Gaps(_, _)
Gaps(sortedWrites, i) ==
  IF i >= Len(sortedWrites) THEN <<>>
  ELSE LET current == sortedWrites[i + 1]
           prev == sortedWrites[i]
       IN (IF current - prev > 1 THEN FromTo(prev + 1, current) ELSE <<>>)
            \o Gaps(sortedWrites, i + 1)

\* lostUpdates, as computed from cassie.dbWrites
LostUpdates(writes) ==
  LET sortedWrites == SortBy(writes, FALSE)
  IN (IF sortedWrites = <<>> \/ sortedWrites[1] # 0 THEN <<0>> ELSE <<>>)
       \o Gaps(sortedWrites, 1)

\* what the while loop has computed before its first iteration
NoLines == [threw |-> FALSE, lines |-> <<>>, correctReq |-> 0, incorrectReq |-> 0,
            wrong |-> 0, dbReadWrongValue |-> 0, processingTime |-> <<>>]

\* a line appended to str: the two pointers, the value of the request and
\* what follows the time at the end of the line
Line(reqPointer, notifPointer, value, verdict) ==
  [reqPointer |-> reqPointer, notifPointer |-> notifPointer, value |-> value,
   verdict |-> verdict]

\* the while loop from the iteration at reqPointer and notifPointer on;
\* reading notification.time of an undefined notification throws
RECURSIVE Classify(_, _, _, _)
Classify(reqPointer, notifPointer, lostUpdates, acc) ==
  IF reqPointer >= Len(requests) THEN acc
  ELSE
    LET request == requests[reqPointer + 1]
        defined == notifPointer < Len(notifications)
        notification == notifications[notifPointer + 1]
        counted == IF reqPointer = request.value
                     THEN [acc EXCEPT !.correctReq = @ + 1]
                     ELSE [acc EXCEPT !.incorrectReq = @ + 1]
        timed == IF defined
                   THEN [counted EXCEPT !.processingTime =
                                           Append(@, notification.time - request.time)]
                   ELSE counted
    IN IF Includes(lostUpdates, request.value)
         THEN IF ~defined
                THEN [counted EXCEPT !.threw = TRUE]
                ELSE Classify(reqPointer + 1, notifPointer, lostUpdates,
                       [counted EXCEPT !.lines = Append(@,
                          Line(reqPointer, notifPointer, request.value, "FLAGGED AS LOST"))])
       ELSE IF defined /\ request.value # notification.value
         THEN IF notifPointer < Len(dbWrites) /\ request.value = dbWrites[notifPointer + 1]
                THEN Classify(reqPointer + 1, notifPointer + 1, lostUpdates,
                       [timed EXCEPT !.dbReadWrongValue = @ + 1, !.wrong = @ + 1,
                                     !.lines = Append(@,
                          Line(reqPointer, notifPointer, request.value,
                               "WRONG VALUE FROM DATABASE"))])
                ELSE Classify(reqPointer + 1, notifPointer + 1, lostUpdates,
                       [timed EXCEPT !.wrong = @ + 1,
                                     !.lines = Append(@,
                          Line(reqPointer, notifPointer, request.value,
                               "REORDERED BY GATEWAY"))])
       ELSE Classify(reqPointer + 1, notifPointer + 1, lostUpdates,
              [timed EXCEPT !.lines = Append(@,
                 Line(reqPointer, notifPointer, request.value,
                      IF defined THEN "" ELSE "lost"))])

\* the sum of the numbers of a sequence: what the reduce of findAvg gives
RECURSIVE Sum(_)
Sum(arr) == IF arr = <<>> THEN 0 ELSE arr[1] + Sum(Tail(arr))

\* timeBetween: the differences of consecutive entries of times
TimeBetween(times) == [i \in 1..(Len(times) - 1) |-> times[i + 1] - times[i]]

\* RoundAvg with Math.floor in the place of Math.round
FloorAvg(samples) == Sum(samples) \div Len(samples)

\* Math.round(findAvg(samples)) for integer samples, at least one:
\* Math.round(x) is the floor of x + 1/2
RoundAvg(samples) == (2 * Sum(samples) + Len(samples)) \div (2 * Len(samples))

\* if (samples.length > 0) Math.round(findAvg(samples)) else 0
AvgOrZero(samples) == IF Len(samples) > 0 THEN RoundAvg(samples) ELSE 0

\* cassAvg: Math.round(cassAvg / cassie.intervals.length), 0 / 0 being NaN
CassAvg(arr) ==
  IF arr = <<>> THEN [nan |-> TRUE, ms |-> 0]
  ELSE [nan |-> FALSE,
        ms |-> RoundAvg([i \in 1..Len(arr) |-> arr[i].finish - arr[i].start])]

\* Overlapping with the break lost: every pair is counted
OverlappingPairs(sorted) ==
  Cardinality({p \in (1..Len(sorted)) \X (1..Len(sorted)) :
                 p[2] < p[1] /\ sorted[p[2]].finish > sorted[p[1]].finish})

\* overlapping: the two for loops over the sorted intervals, the inner one
\* left at the first j found
Overlapping(sorted) ==
  Cardinality({i \in 1..Len(sorted) :
                 \E j \in 1..(i - 1) : sorted[j].finish > sorted[i].finish})

\* the PUT handler for sequenceNumber -1, up to its await: when the while
\* loop throws, nothing is sent and cassie.intervals is not sorted
Report ==
  /\ LET lostUpdates == LostUpdates(dbWrites)
         loop == Classify(0, 0, lostUpdates, NoLines)
     IN IF loop.threw
          THEN /\ response' = [made |-> FALSE, threw |-> TRUE, lostUpdates |-> lostUpdates]
               /\ UNCHANGED intervals
          ELSE /\ response' =
                    [made |-> TRUE, threw |-> FALSE, status |-> 400,
                     lostUpdates |-> lostUpdates, lines |-> loop.lines,
                     correctReq |-> loop.correctReq, incorrectReq |-> loop.incorrectReq,
                     wrong |-> loop.wrong, dbReadWrongValue |-> loop.dbReadWrongValue,
                     count |-> count,
                     avgWrite |-> AvgOrZero(TimeBetween(
                                    [i \in 1..Len(intervals) |-> intervals[i].start])),
                     avgUpdate |-> AvgOrZero(TimeBetween(
                                     [i \in 1..Len(notifications) |-> notifications[i].time])),
                     avgProcessingTime |-> AvgOrZero(loop.processingTime),
                     overlapping |-> Overlapping(SortBy(intervals, TRUE)),
                     cassAvg |-> CassAvg(intervals),
                     localDetectionErrors |-> localDetectionErrors,
                     globalDetectionErrors |-> globalDetectionErrors,
                     notPersistedErrors |-> notPersistedErrors,
                     delayedRequests |-> delayedRequests]
               /\ intervals' = SortBy(intervals, TRUE)
  /\ UNCHANGED <<count, requests, notifications, pending, finished,
                 localDetectionErrors, globalDetectionErrors, notPersistedErrors,
                 delayedRequests, dbWrites>>
  /\ UNCHANGED <<writeVars, hubVars, envVars, now, msgVars>>

(***************************************************************************)
(* The WebSocket handler of the things controller, for one connection.     *)
(***************************************************************************)
\* the ids things may have
ThingIds == {"t1", "t2"}

\* typeof thingId === 'undefined': the connection is on all things
Undefined == "undefined"

\* the names in thing.properties, the same for every thing
PropertyNames == {"on"}

\* a call of addThing, named by its thing and by what delivered the thing:
\* the lookup of the open step, or a THING_ADDED notification
SubIds == ThingIds \X {"listing", "added"}

\* the keys request.data may have, and the names the events may have
Names == {"level", "toString"}

\* the keys every object literal has from Object.prototype, as far as Names go
ObjectPrototype == {"toString"}

\* request.messageType
MessageTypes == {"setProperty", "addEventSubscription", "requestAction", "hello"}

\* what JSON.parse gives for a text it takes: request.id may be missing
Requests == [id : ThingIds \cup {Undefined}, messageType : MessageTypes,
             data : SUBSET Names]

\* let request = null, as it stays when JSON.parse throws
NoRequest == [id |-> Undefined, messageType |-> Undefined, data |-> {}]

\* the request of the n-th 'message' event, as it is carried in data.request
RequestNo(n) == ToString(n)

RequestNos == {RequestNo(n) : n \in 1..MaxInputs}

\* data.message of the ERROR messages that carry the request
RequestErrors == {"Missing thing id", "Thing not found", "Unknown messageType",
                  "setProperty failed", "requestAction failed"}

\* the messages sendMessage is called with, as <<messageType, id>>, and for
\* those of the 'message' listener and of onEvent as <<messageType,
\* data.message, data.request>> and <<messageType, id, event.name>>
Messages == ({"PROPERTY_STATUS", "THING_ADDED", "THING_REMOVED"} \X ThingIds)
              \cup {<<"ERROR", Undefined>>}
              \cup {<<"ERROR", "Parsing request failed", Undefined>>}
              \cup ({"ERROR"} \X RequestErrors \X RequestNos)
              \cup ({"EVENT"} \X ThingIds \X Names)

\* the state websocketHandler's closures work on, as one record
Hub ==
  [readyState |-> readyState, sent |-> sent, thingCleanups |-> thingCleanups,
   thingAddedL |-> thingAddedL, propertyChangedL |-> propertyChangedL,
   actionStatusL |-> actionStatusL, heartbeat |-> heartbeat,
   eventSubs |-> eventSubs, connectedSubs |-> connectedSubs,
   removedSubs |-> removedSubs, modifiedSubs |-> modifiedSubs,
   removeCalls |-> removeCalls, snapshotReads |-> snapshotReads]

\* the next state of those variables
SetHub(H) ==
  /\ readyState' = H.readyState
  /\ sent' = H.sent
  /\ thingCleanups' = H.thingCleanups
  /\ thingAddedL' = H.thingAddedL
  /\ propertyChangedL' = H.propertyChangedL
  /\ actionStatusL' = H.actionStatusL
  /\ heartbeat' = H.heartbeat
  /\ eventSubs' = H.eventSubs
  /\ connectedSubs' = H.connectedSubs
  /\ removedSubs' = H.removedSubs
  /\ modifiedSubs' = H.modifiedSubs
  /\ removeCalls' = H.removeCalls
  /\ snapshotReads' = H.snapshotReads

\* sendMessage: websocket.send hands a message over on an open socket, and
\* otherwise calls back with an error, which is logged
SendMessage(H, message) ==
  IF H.readyState = "OPEN" THEN [H EXCEPT !.sent[message] = @ + 1] ELSE H

\* websocket.close()
WebsocketClose(H) ==
  IF H.readyState = "OPEN" THEN [H EXCEPT !.readyState = "CLOSING"] ELSE H

\* thingCleanup of the addThing call sub: removeListener takes a listener
\* off when it is on, and does nothing otherwise
ThingCleanup(H, sub) ==
  [H EXCEPT !.eventSubs[sub[1]] = IF @ > 0 THEN @ - 1 ELSE @,
            !.connectedSubs[sub[1]] = @ \ {sub},
            !.removedSubs[sub[1]] = @ \ {sub},
            !.modifiedSubs[sub[1]] = @ \ {sub},
            !.removeCalls[sub] = @ + 1]

\* delete thingCleanups[id]
DeleteCleanup(H, id) ==
  [H EXCEPT !.thingCleanups = [k \in DOMAIN @ \ {id} |-> @[k]]]

\* onRemoved of a call addThing(thing) with thing.id = id
OnRemoved(H, id) ==
  LET H1 == IF id \in DOMAIN H.thingCleanups
              THEN DeleteCleanup(ThingCleanup(H, H.thingCleanups[id]), id)
              ELSE H
  IN IF thingId # Undefined /\ H1.readyState \in {"OPEN", "CONNECTING"}
       THEN WebsocketClose(H1)
       ELSE SendMessage(H1, <<"THING_REMOVED", id>>)

\* thing.remove(): the REMOVED listeners the thing has when the event is
\* emitted are all called, n of them
RECURSIVE EmitRemoved(_, _, _)
EmitRemoved(H, id, n) ==
  IF n = 0 THEN H ELSE EmitRemoved(OnRemoved(H, id), id, n - 1)

\* addThing(thing) with thing.id = id, as the call named sub
AddThing(H, id, sub) ==
  [H EXCEPT !.eventSubs[id] = @ + 1,
            !.connectedSubs[id] = @ \cup {sub},
            !.removedSubs[id] = @ \cup {sub},
            !.modifiedSubs[id] = @ \cup {sub},
            !.thingCleanups = [k \in DOMAIN @ \cup {id} |-> IF k = id THEN sub ELSE @[k]],
            !.snapshotReads[id] = @ + Cardinality(PropertyNames)]

\* things.forEach(addThing)
RECURSIVE AddThings(_, _)
AddThings(H, ids) ==
  IF ids = {} THEN H
  ELSE LET id == CHOOSE x \in ids : TRUE
       IN AddThings(AddThing(H, id, <<id, "listing">>), ids \ {id})

\* for (const id in thingCleanups) thingCleanups[id]()
RECURSIVE CleanupThings(_, _)
CleanupThings(H, ids) ==
  IF ids = {} THEN H
  ELSE LET id == CHOOSE x \in ids : TRUE
       IN CleanupThings(ThingCleanup(H, H.thingCleanups[id]), ids \ {id})

\* cleanup with thingCleanups = {} lost
CleanupKeeps(H) ==
  [CleanupThings(H, DOMAIN H.thingCleanups)
     EXCEPT !.thingAddedL = FALSE, !.propertyChangedL = FALSE,
            !.actionStatusL = FALSE, !.heartbeat = FALSE]

\* cleanup
Cleanup(H) ==
  [CleanupThings(H, DOMAIN H.thingCleanups)
     EXCEPT !.thingAddedL = FALSE, !.propertyChangedL = FALSE,
            !.actionStatusL = FALSE, !.thingCleanups = EmptyMap,
            !.heartbeat = FALSE]

\* websocketHandler, from its first line to its last: the synchronous part
WebsocketHandler ==
  /\ handler = "notrun"
  /\ IF readyState # "OPEN"
       THEN /\ handler' = "returned"
            /\ UNCHANGED <<thingAddedL, propertyChangedL, actionStatusL, heartbeat, lookup>>
       ELSE /\ handler' = "ran"
            /\ lookup' = "pending"
            /\ thingAddedL' = (thingId = Undefined)
            /\ propertyChangedL' = TRUE
            /\ actionStatusL' = TRUE
            /\ heartbeat' = TRUE
  /\ UNCHANGED <<thingId, readyState, sent, subscribedEventNames, thingCleanups,
                 eventSubs, connectedSubs, removedSubs, modifiedSubs, removeCalls,
                 cleanups, snapshotReads, changeReads>>
  /\ UNCHANGED <<cassieVars, writeVars, envVars, now>>
  /\ UNCHANGED <<msgVars, response>>

\* Things.getThing(thingId) resolves: addThing(thing)
GetThingResolves ==
  /\ lookup = "pending"
  /\ thingId \in things
  /\ lookup' = "done"
  /\ SetHub(AddThing(Hub, thingId, <<thingId, "listing">>))
  /\ UNCHANGED <<handler, thingId, subscribedEventNames, cleanups, changeReads>>
  /\ UNCHANGED <<cassieVars, writeVars, envVars, now>>
  /\ UNCHANGED <<msgVars, response>>

\* GetThingRejects with websocket.close() lost
GetThingRejectsStaysOpen ==
  /\ lookup = "pending"
  /\ thingId # Undefined
  /\ thingId \notin things
  /\ lookup' = "rejected"
  /\ SetHub(SendMessage(Hub, <<"ERROR", Undefined>>))
  /\ UNCHANGED <<handler, thingId, subscribedEventNames, cleanups, changeReads>>
  /\ UNCHANGED <<cassieVars, writeVars, envVars, now>>
  /\ UNCHANGED <<msgVars, response>>

\* Things.getThing(thingId) rejects: an ERROR message, then websocket.close()
GetThingRejects ==
  /\ lookup = "pending"
  /\ thingId # Undefined
  /\ thingId \notin things
  /\ lookup' = "rejected"
  /\ SetHub(WebsocketClose(SendMessage(Hub, <<"ERROR", Undefined>>)))
  /\ UNCHANGED <<handler, thingId, subscribedEventNames, cleanups, changeReads>>
  /\ UNCHANGED <<cassieVars, writeVars, envVars, now>>
  /\ UNCHANGED <<msgVars, response>>

\* Things.getThings() resolves with the map of things: things.forEach(addThing)
GetThingsResolves ==
  /\ lookup = "pending"
  /\ thingId = Undefined
  /\ lookup' = "done"
  /\ SetHub(AddThings(Hub, things))
  /\ UNCHANGED <<handler, thingId, subscribedEventNames, cleanups, changeReads>>
  /\ UNCHANGED <<cassieVars, writeVars, envVars, now>>
  /\ UNCHANGED <<msgVars, response>>

\* a thing is created: it is in Things before its THING_ADDED is emitted
CreateThing(id) ==
  /\ handler = "ran"
  /\ id \notin things \cup gone
  /\ things' = things \cup {id}
  /\ announce' = announce \cup {id}
  /\ UNCHANGED <<cassieVars, writeVars, hubVars, gone, now>>
  /\ UNCHANGED <<msgVars, response>>

\* Things emits THING_ADDED: onThingAdded, when it is a listener
ThingAdded(id) ==
  /\ id \in announce
  /\ announce' = announce \ {id}
  /\ SetHub(IF thingAddedL
              THEN AddThing(SendMessage(Hub, <<"THING_ADDED", id>>), id, <<id, "added">>)
              ELSE Hub)
  /\ UNCHANGED <<handler, thingId, subscribedEventNames, cleanups, lookup, changeReads>>
  /\ UNCHANGED <<cassieVars, writeVars, things, gone, now>>
  /\ UNCHANGED <<msgVars, response>>

\* a thing is removed: it emits REMOVED to its listeners
ThingRemoved(id) ==
  /\ handler = "ran"
  /\ id \in things
  /\ things' = things \ {id}
  /\ gone' = gone \cup {id}
  /\ announce' = announce \ {id}
  /\ SetHub(EmitRemoved(Hub, id, Cardinality(removedSubs[id])))
  /\ UNCHANGED <<handler, thingId, subscribedEventNames, cleanups, lookup, changeReads>>
  /\ UNCHANGED <<cassieVars, writeVars, now>>
  /\ UNCHANGED <<msgVars, response>>

\* the peer closes, or the socket is lost: the closing of the socket begins
ClosingStarts ==
  /\ handler = "ran"
  /\ readyState = "OPEN"
  /\ readyState' = "CLOSING"
  /\ UNCHANGED <<handler, thingId, sent, subscribedEventNames, thingCleanups,
                 thingAddedL, propertyChangedL, actionStatusL, heartbeat,
                 eventSubs, connectedSubs, removedSubs, modifiedSubs, removeCalls,
                 cleanups, lookup, snapshotReads, changeReads>>
  /\ UNCHANGED <<cassieVars, writeVars, envVars, now>>
  /\ UNCHANGED <<msgVars, response>>

\* the heartbeat interval fires and websocket.ping() throws: websocket.terminate()
HeartbeatFails ==
  /\ heartbeat
  /\ readyState = "OPEN"
  /\ readyState' = "CLOSING"
  /\ UNCHANGED <<handler, thingId, sent, subscribedEventNames, thingCleanups,
                 thingAddedL, propertyChangedL, actionStatusL, heartbeat,
                 eventSubs, connectedSubs, removedSubs, modifiedSubs, removeCalls,
                 cleanups, lookup, snapshotReads, changeReads>>
  /\ UNCHANGED <<cassieVars, writeVars, envVars, now>>
  /\ UNCHANGED <<msgVars, response>>

\* websocket.on('error', cleanup): the socket emits 'error', and 'close' later
ErrorEvent ==
  /\ handler = "ran"
  /\ readyState # "CLOSED"
  /\ cleanups = 0
  /\ cleanups' = cleanups + 1
  /\ SetHub(Cleanup([Hub EXCEPT !.readyState = "CLOSING"]))
  /\ UNCHANGED <<handler, thingId, subscribedEventNames, lookup, changeReads>>
  /\ UNCHANGED <<cassieVars, writeVars, envVars, now>>
  /\ UNCHANGED <<msgVars, response>>

\* websocket.on('close', cleanup): the socket emits 'close', once
CloseEvent ==
  /\ handler = "ran"
  /\ readyState # "CLOSED"
  /\ cleanups' = cleanups + 1
  /\ SetHub(Cleanup([Hub EXCEPT !.readyState = "CLOSED"]))
  /\ UNCHANGED <<handler, thingId, subscribedEventNames, lookup, changeReads>>
  /\ UNCHANGED <<cassieVars, writeVars, envVars, now>>
  /\ UNCHANGED <<msgVars, response>>

\* AddonManager emits PROPERTY_CHANGED for a property of thing id:
\* onPropertyChanged up to its await
PropertyChanged(id) ==
  /\ propertyChangedL
  /\ id \in things
  /\ count < MaxChanges
  /\ ~(thingId # Undefined /\ id # thingId)
  /\ count' = count + 1
  /\ changeReads' = [changeReads EXCEPT ![id] = @ + 1]
  /\ UNCHANGED <<requests, notifications, intervals, pending, finished,
                 localDetectionErrors, globalDetectionErrors, notPersistedErrors,
                 delayedRequests, dbWrites>>
  /\ UNCHANGED <<handler, thingId, readyState, sent, subscribedEventNames, thingCleanups,
                 thingAddedL, propertyChangedL, actionStatusL, heartbeat,
                 eventSubs, connectedSubs, removedSubs, modifiedSubs, removeCalls,
                 cleanups, lookup, snapshotReads>>
  /\ UNCHANGED <<writeVars, envVars, now>>
  /\ UNCHANGED <<msgVars, response>>

\* property.getValue() resolves with value: onPropertyChanged after its await
PropertyValue(id, value) ==
  /\ changeReads[id] > 0
  /\ changeReads' = [changeReads EXCEPT ![id] = @ - 1]
  /\ notifications' = Append(notifications, [value |-> value, time |-> now])
  /\ SetHub(SendMessage(Hub, <<"PROPERTY_STATUS", id>>))
  /\ UNCHANGED <<count, requests, intervals, pending, finished,
                 localDetectionErrors, globalDetectionErrors, notPersistedErrors,
                 delayedRequests, dbWrites>>
  /\ UNCHANGED <<handler, thingId, subscribedEventNames, cleanups, lookup>>
  /\ UNCHANGED <<writeVars, envVars, now>>
  /\ UNCHANGED <<msgVars, response>>

\* AddonManager.getProperty(thing.id, name) of addThing settles: the .then
\* sends the value, the .catch logs
SnapshotValue(id, resolves) ==
  /\ snapshotReads[id] > 0
  /\ LET H == [Hub EXCEPT !.snapshotReads[id] = @ - 1]
     IN SetHub(IF resolves THEN SendMessage(H, <<"PROPERTY_STATUS", id>>) ELSE H)
  /\ UNCHANGED <<handler, thingId, subscribedEventNames, cleanups, lookup, changeReads>>
  /\ UNCHANGED <<cassieVars, writeVars, envVars, now>>
  /\ UNCHANGED <<msgVars, response>>

\* what a message leaves in flight before it is handled: nothing, on no
\* device; device is the one the calls counted or in flight are on
NoOps == [device |-> Undefined, sets |-> 0, setsLeft |-> 0, setsFailed |-> 0,
          actionsLeft |-> 0]

\* AddonManager.getDevice(id): the devices are those of the things
GetDevice(id) == id \in things

\* MessageError with a websocket.close() after the ERROR
MessageErrorCloses(message) ==
  /\ SetHub(WebsocketClose(SendMessage(Hub, message)))
  /\ UNCHANGED <<ops, subscribedEventNames>>

\* a branch of the 'message' listener that sends an ERROR and returns
MessageError(message) ==
  /\ SetHub(SendMessage(Hub, message))
  /\ UNCHANGED <<ops, subscribedEventNames>>

\* websocket.on('message', ...): the listener, for a text JSON.parse throws
\* on (parses = FALSE) or takes as request
Message(parses, request) ==
  /\ handler = "ran"
  /\ readyState # "CLOSED"
  /\ received + raised < MaxInputs
  /\ received' = received + 1
  /\ LET n == received + 1
         id == IF request.id # Undefined THEN request.id ELSE thingId
         k == Cardinality(request.data)
     IN IF ~parses
          THEN MessageError(<<"ERROR", "Parsing request failed", Undefined>>)
        ELSE IF id = Undefined
          THEN MessageError(<<"ERROR", "Missing thing id", RequestNo(n)>>)
        ELSE IF ~GetDevice(id)
          THEN MessageError(<<"ERROR", "Thing not found", RequestNo(n)>>)
        ELSE IF request.messageType = "setProperty"
          THEN /\ ops' = [ops EXCEPT ![n] = [@ EXCEPT !.device = IF k > 0 THEN id ELSE @,
                                                      !.sets = k, !.setsLeft = k]]
               /\ SetHub(Hub)
               /\ UNCHANGED subscribedEventNames
        ELSE IF request.messageType = "addEventSubscription"
          THEN /\ subscribedEventNames' = subscribedEventNames \cup request.data
               /\ SetHub(Hub)
               /\ UNCHANGED ops
        ELSE IF request.messageType = "requestAction"
          THEN /\ ops' = [ops EXCEPT ![n] = [@ EXCEPT !.device = IF k > 0 THEN id ELSE @,
                                                      !.actionsLeft = k]]
               /\ SetHub(Hub)
               /\ UNCHANGED subscribedEventNames
        ELSE MessageError(<<"ERROR", "Unknown messageType", RequestNo(n)>>)
  /\ UNCHANGED <<handler, thingId, cleanups, lookup, changeReads, raised>>
  /\ UNCHANGED <<cassieVars, writeVars, envVars, now, response>>

\* SetPropertySettles with an ERROR for every device.setProperty that fails
SetPropertySettlesEach(n, ok) ==
  /\ ops[n].setsLeft > 0
  /\ ops' = [ops EXCEPT ![n] = [@ EXCEPT !.setsLeft = @ - 1,
                                         !.setsFailed = IF ok THEN @ ELSE @ + 1]]
  /\ SetHub(IF ~ok
              THEN SendMessage(Hub, <<"ERROR", "setProperty failed", RequestNo(n)>>)
              ELSE Hub)
  /\ UNCHANGED <<handler, thingId, subscribedEventNames, cleanups, lookup, changeReads>>
  /\ UNCHANGED <<received, raised>>
  /\ UNCHANGED <<cassieVars, writeVars, envVars, now, response>>

\* a device.setProperty of the n-th message settles: Promise.all rejects
\* with the first that fails, and its .catch sends the ERROR
SetPropertySettles(n, ok) ==
  /\ ops[n].setsLeft > 0
  /\ ops' = [ops EXCEPT ![n] = [@ EXCEPT !.setsLeft = @ - 1,
                                         !.setsFailed = IF ok THEN @ ELSE @ + 1]]
  /\ SetHub(IF ~ok /\ ops[n].setsFailed = 0
              THEN SendMessage(Hub, <<"ERROR", "setProperty failed", RequestNo(n)>>)
              ELSE Hub)
  /\ UNCHANGED <<handler, thingId, subscribedEventNames, cleanups, lookup, changeReads>>
  /\ UNCHANGED <<received, raised>>
  /\ UNCHANGED <<cassieVars, writeVars, envVars, now, response>>

\* the chain Things.getThing, Actions.add, AddonManager.requestAction of one
\* action of the n-th message settles: its .catch sends an ERROR
ActionSettles(n, ok) ==
  /\ ops[n].actionsLeft > 0
  /\ ops' = [ops EXCEPT ![n] = [@ EXCEPT !.actionsLeft = @ - 1,
                                         !.device = IF ops[n].actionsLeft = 1
                                                      THEN Undefined ELSE @]]
  /\ SetHub(IF ~ok
              THEN SendMessage(Hub, <<"ERROR", "requestAction failed", RequestNo(n)>>)
              ELSE Hub)
  /\ UNCHANGED <<handler, thingId, subscribedEventNames, cleanups, lookup, changeReads>>
  /\ UNCHANGED <<received, raised>>
  /\ UNCHANGED <<cassieVars, writeVars, envVars, now, response>>

\* onEvent(event) with event.thingId = id and event.name = name: a key of
\* Object.prototype is truthy in subscribedEventNames as well
OnEvent(H, id, name) ==
  IF thingId # Undefined /\ id # thingId THEN H
  ELSE IF name \notin subscribedEventNames \cup ObjectPrototype THEN H
  ELSE SendMessage(H, <<"EVENT", id, name>>)

\* the event subscriptions of a thing are all called, n of them
RECURSIVE EmitEvent(_, _, _, _)
EmitEvent(H, id, name, n) ==
  IF n = 0 THEN H ELSE EmitEvent(OnEvent(H, id, name), id, name, n - 1)

\* thing id raises the event name
EventRaised(id, name) ==
  /\ eventSubs[id] > 0
  /\ received + raised < MaxInputs
  /\ raised' = raised + 1
  /\ SetHub(EmitEvent(Hub, id, name, eventSubs[id]))
  /\ UNCHANGED <<handler, thingId, subscribedEventNames, cleanups, lookup, changeReads>>
  /\ UNCHANGED <<received, ops>>
  /\ UNCHANGED <<cassieVars, writeVars, envVars, now, response>>

\* the connection before websocketHandler is called, on no thing that matters
HubParked ==
  /\ handler = "notrun"
  /\ lookup = "none"
  /\ sent = [m \in Messages |-> 0]
  /\ subscribedEventNames = {}
  /\ thingCleanups = EmptyMap
  /\ thingAddedL = FALSE
  /\ propertyChangedL = FALSE
  /\ actionStatusL = FALSE
  /\ heartbeat = FALSE
  /\ eventSubs = [id \in ThingIds |-> 0]
  /\ connectedSubs = [id \in ThingIds |-> {}]
  /\ removedSubs = [id \in ThingIds |-> {}]
  /\ modifiedSubs = [id \in ThingIds |-> {}]
  /\ removeCalls = [sub \in SubIds |-> 0]
  /\ cleanups = 0
  /\ snapshotReads = [id \in ThingIds |-> 0]
  /\ changeReads = [id \in ThingIds |-> 0]
  /\ announce = {}
  /\ gone = {}
  /\ received = 0
  /\ ops = [n \in 1..MaxInputs |-> NoOps]
  /\ raised = 0
  /\ response = NoResponse

\* the correlator alone: no connection is opened
Init ==
  /\ CassieInit /\ WriteInit /\ now = 0
  /\ HubParked
  /\ thingId = Undefined
  /\ readyState = "CLOSED"
  /\ things = {}

\* a connection about to be handled: on one thing or on all, the socket
\* open or closed already, over any set of things
HubInit ==
  /\ CassieInit /\ WriteInit /\ now = 0
  /\ HubParked
  /\ thingId \in ThingIds \cup {Undefined}
  /\ readyState \in {"OPEN", "CLOSED"}
  /\ things \in SUBSET ThingIds

Next ==
  \/ \E w \in WriteIds, value \in Values : Write(w, value)
  \/ \E w \in WriteIds : AckNoDelay(w)
  \/ \E w \in WriteIds, ts \in Tokens : AckDelay(w, ts)
  \/ \E w \in WriteIds : ExecuteFails(w)
  \/ \E msg \in FinishedMessages : FinishedProcessing(msg)
  \/ Reset

Spec == Init /\ [][Next]_vars

\* the calls of Cassie.write that are timed: the first two
TimedWrites == {1, 2}

\* the correlator with the clock running
TimedNext ==
  \/ \E w \in TimedWrites, value \in Values : Write(w, value)
  \/ \E w \in TimedWrites : AckNoDelay(w)
  \/ \E w \in TimedWrites, ts \in Tokens : AckDelay(w, ts)
  \/ \E w \in TimedWrites : ExecuteFails(w)
  \/ \E msg \in FinishedMessages : FinishedProcessing(msg)
  \/ Reset
  \/ Tick

TimedSpec == Init /\ [][TimedNext]_vars

HubNext ==
  \/ WebsocketHandler
  \/ GetThingResolves
  \/ GetThingRejects
  \/ GetThingsResolves
  \/ \E id \in ThingIds : CreateThing(id)
  \/ \E id \in ThingIds : ThingAdded(id)
  \/ \E id \in ThingIds : ThingRemoved(id)
  \/ ClosingStarts
  \/ HeartbeatFails
  \/ CloseEvent
  \/ ErrorEvent
  \/ \E id \in ThingIds : PropertyChanged(id)
  \/ \E id \in ThingIds, value \in Values : PropertyValue(id, value)
  \/ \E id \in ThingIds, resolves \in BOOLEAN : SnapshotValue(id, resolves)

HubSpec == HubInit /\ [][HubNext]_vars

\* the sequences over S of length up to n
SeqsUpTo(S, n) == UNION {[1..k -> S] : k \in 0..n}

\* the values of the workload a report is made for
ReportValues == 0..MaxValue

\* cassie after a run of the workload, when the report is asked for: the
\* streams hold any values in any order
ReportInit ==
  /\ requests \in SeqsUpTo([value : ReportValues, time : {0}], MaxLen)
  /\ notifications \in SeqsUpTo([value : ReportValues, time : {0}], MaxLen)
  /\ dbWrites \in SeqsUpTo(ReportValues, MaxLen)
  /\ count = Len(notifications)
  /\ intervals = <<>>
  /\ pending = EmptyMap
  /\ finished = <<>>
  /\ localDetectionErrors = 0
  /\ globalDetectionErrors = 0
  /\ notPersistedErrors = 0
  /\ delayedRequests = 0
  /\ WriteInit /\ now = 0
  /\ HubParked
  /\ thingId = Undefined
  /\ readyState = "CLOSED"
  /\ things = {}

ReportNext == Report

\* the calls of Cassie.write in the run that is audited: the first
AuditedWrites == {1}

\* cassie with the traffic of one request behind it, or of none
AuditInit ==
  /\ \/ /\ requests = <<>> /\ notifications = <<>>
     \/ /\ requests = <<[value |-> 0, time |-> 0]>>
        /\ notifications = <<[value |-> 0, time |-> 0]>>
  /\ count = Len(notifications)
  /\ intervals = <<>>
  /\ pending = EmptyMap
  /\ finished = <<>>
  /\ localDetectionErrors = 0
  /\ globalDetectionErrors = 0
  /\ notPersistedErrors = 0
  /\ delayedRequests = 0
  /\ dbWrites = <<>>
  /\ WriteInit /\ now = 0
  /\ HubParked
  /\ thingId = Undefined
  /\ readyState = "CLOSED"
  /\ things = {}

\* the correlator with the consistencyError events and the PUT handler for
\* the sequence numbers -1 and -2
AuditNext ==
  \/ \E w \in AuditedWrites, value \in Values : Write(w, value)
  \/ \E w \in AuditedWrites : AckNoDelay(w)
  \/ \E w \in AuditedWrites, ts \in Tokens : AckDelay(w, ts)
  \/ \E w \in AuditedWrites : ExecuteFails(w)
  \/ \E msg \in FinishedMessages : FinishedProcessing(msg)
  \/ \E msg \in ErrorMessages : ConsistencyError(msg)
  \/ Report
  \/ Reset

AuditSpec == AuditInit /\ [][AuditNext]_vars

ReportSpec == ReportInit /\ [][ReportNext]_vars

\* the calls of Cassie.write of a run whose summary is asked for: up to three
SummaryWrites == {1, 2, 3}

\* the intervals cassie can hold after such a run: one per write that has
\* finished, pushed when it finished, so in the order of their finish; a
\* write called later has not started earlier
SummaryIntervals ==
  {arr \in SeqsUpTo([start : 0..MaxStamp, finish : 0..MaxStamp, id : SummaryWrites],
                    Cardinality(SummaryWrites)) :
     /\ \A i \in 1..Len(arr) : arr[i].start <= arr[i].finish
     /\ \A i, j \in 1..Len(arr) :
          /\ i < j => arr[i].finish <= arr[j].finish
          /\ i # j => arr[i].id # arr[j].id
          /\ arr[i].id < arr[j].id => arr[i].start <= arr[j].start}

\* the notifications of such a run: pushed with the time they were sent at
SummaryNotifications ==
  {arr \in SeqsUpTo([value : {0}, time : 0..MaxStamp], Cardinality(SummaryWrites)) :
     \A i \in 1..(Len(arr) - 1) : arr[i].time <= arr[i + 1].time}

\* cassie after a run of writes, when the summary is asked for; the writes
\* came from no request of the PUT handler
SummaryInit ==
  /\ intervals \in SummaryIntervals
  /\ notifications \in SummaryNotifications
  /\ requests = <<>>
  /\ dbWrites = [i \in 1..Len(intervals) |-> 0]
  /\ count = Len(notifications)
  /\ pending = EmptyMap
  /\ finished = <<>>
  /\ localDetectionErrors = 0
  /\ globalDetectionErrors = 0
  /\ notPersistedErrors = 0
  /\ delayedRequests = 0
  /\ WriteInit /\ now = MaxStamp
  /\ HubParked
  /\ thingId = Undefined
  /\ readyState = "CLOSED"
  /\ things = {}

SummaryNext == Report

SummarySpec == SummaryInit /\ [][SummaryNext]_vars

\* the connection with its 'message' listener and the events of its things
MsgNext ==
  \/ WebsocketHandler
  \/ GetThingResolves
  \/ GetThingsResolves
  \/ \E request \in Requests : Message(TRUE, request)
  \/ Message(FALSE, NoRequest)
  \/ \E n \in 1..MaxInputs, ok \in BOOLEAN : SetPropertySettles(n, ok)
  \/ \E n \in 1..MaxInputs, ok \in BOOLEAN : ActionSettles(n, ok)
  \/ \E id \in ThingIds, name \in Names : EventRaised(id, name)
  \/ ClosingStarts
  \/ CloseEvent

\* an open connection about to be handled, on thing t1 or on all things,
\* while t1 is the only thing
MsgInit ==
  /\ HubInit
  /\ readyState = "OPEN"
  /\ things = {"t1"}
  /\ thingId \in {"t1", Undefined}

MsgSpec == MsgInit /\ [][MsgNext]_vars

\* an open connection about to be handled, on thing t1, while there are
\* other things
ScopedInit ==
  /\ HubInit
  /\ readyState = "OPEN"
  /\ things = ThingIds
  /\ thingId = "t1"

\* that connection with its 'message' listener
ScopedNext ==
  \/ WebsocketHandler
  \/ GetThingResolves
  \/ \E request \in Requests : Message(TRUE, request)
  \/ Message(FALSE, NoRequest)
  \/ \E n \in 1..MaxInputs, ok \in BOOLEAN : SetPropertySettles(n, ok)
  \/ \E n \in 1..MaxInputs, ok \in BOOLEAN : ActionSettles(n, ok)
  \/ ClosingStarts
  \/ CloseEvent

ScopedSpec == ScopedInit /\ [][ScopedNext]_vars

(***************************************************************************)
(* The write correlator: properties checked under Spec.                    *)
(***************************************************************************)
\* the step is the .then of this.execute for write w, the result carrying
\* warnings ["DELAY", ts]
IsAckDelay(w, ts) == wpc[w] = "executing" /\ wpc'[w] # "executing" /\ wts'[w] = ts

\* the step is the finishedProcessing handler for a message carrying ts
IsSignal(ts) == \E msg \in FinishedMessages : TimestampOf(msg) = ts /\ FinishedProcessing(msg)

\* C1: whatever the order of the acknowledgments and the completion signals,
\* and however often a signal is repeated, resolve() is called at most once
\* for every write and at most one interval is ever pushed for it.
C1_FulfilledAtMostOnce ==
  \A w \in WriteIds : resolveCalls[w] <= 1 /\ recorded[w] <= 1

\* a write that waited for its token was fulfilled by the signal, and the
\* signal for the same token came again
C1_Witness ==
  \E w \in WriteIds : wpath[w] = "signal" /\ Includes(finished, wts[w])

\* C2: a signal for ts handled while this.pending has no ts leaves ts in
\* this.finished; ts stays there until an acknowledgment carries ts; and the
\* acknowledgment that finds ts there fulfils its write in that very step,
\* leaves this.pending as it is and takes one ts out of this.finished.
C2_MarkedTokenFulfilsInAck ==
  [][\A ts \in Tokens :
       /\ (ts \notin DOMAIN pending /\ IsSignal(ts)) => Includes(finished', ts)
       /\ (Includes(finished, ts) /\ ~Includes(finished', ts))
            => \E w \in WriteIds : IsAckDelay(w, ts)
       /\ \A w \in WriteIds :
            (IsAckDelay(w, ts) /\ Includes(finished, ts))
              => /\ wpc'[w] = "fulfilled"
                 /\ resolveCalls'[w] = resolveCalls[w] + 1
                 /\ pending' = pending
                 /\ Occurrences(finished', ts) = Occurrences(finished, ts) - 1]_vars

\* a write was fulfilled by its acknowledgment, which found its token in
\* this.finished
C2_Witness ==
  \E w \in WriteIds : wpath[w] = "finished" /\ wts[w] \in Tokens

\* C3: a write suspended on ts is fulfilled, and this.pending loses ts, in
\* the step that handles the signal for ts; in every other step it stays
\* suspended and ts stays a key of this.pending.
C3_SuspendedUntilSignal ==
  [][\A w \in WriteIds :
       wpc[w] = "suspended" =>
         IF IsSignal(wts[w])
           THEN wpc'[w] = "fulfilled" /\ wts[w] \notin DOMAIN pending'
           ELSE wpc'[w] = "suspended" /\ wts[w] \in DOMAIN pending']_vars

\* C4: no token is a key of this.pending and an element of this.finished at
\* the same time.
C4_PendingFinishedDisjoint ==
  \A ts \in DOMAIN pending : ~Includes(finished, ts)

\* a token that was taken out of this.finished by one write is now a key of
\* this.pending for another, while this.finished holds another token
C4_Witness ==
  /\ \E w \in WriteIds : wpath[w] = "finished" /\ wts[w] \in DOMAIN pending
  /\ Len(finished) > 0

\* C5: this.finished holds no token twice.
C5_FinishedHasNoDuplicate ==
  \A ts \in Tokens : Occurrences(finished, ts) <= 1

\* C6: a write whose storage call failed has been fulfilled once the failure
\* was handled: its caller got a result.
C6_FailedWriteCompletes ==
  \A w \in WriteIds : wresult[w] = "undefined" => wpc[w] = "fulfilled"

(***************************************************************************)
(* The WebSocket handler: properties checked under HubSpec.                *)
(***************************************************************************)
\* no callback of the connection is registered anywhere
NothingRegistered ==
  /\ ~thingAddedL /\ ~propertyChangedL /\ ~actionStatusL /\ ~heartbeat
  /\ \A id \in ThingIds :
       /\ eventSubs[id] = 0
       /\ connectedSubs[id] = {}
       /\ removedSubs[id] = {}
       /\ modifiedSubs[id] = {}

\* what cleanup leaves behind
TornDown ==
  /\ thingCleanups = EmptyMap
  /\ ~thingAddedL /\ ~propertyChangedL /\ ~actionStatusL /\ ~heartbeat

\* C7: once cleanup has run, no callback of the connection is registered.
C7_NothingRegisteredAfterTeardown ==
  cleanups > 0 => NothingRegistered

\* C8: no thingCleanup ever runs twice; cleanup leaves no stored teardown,
\* no listener and no timer; and cleanup run in a state it left behind
\* changes nothing of the connection but the socket's readyState.
C8_TeardownIdempotent ==
  [][/\ \A sub \in SubIds : removeCalls'[sub] <= 1
     /\ cleanups' # cleanups =>
          /\ TornDown'
          /\ TornDown =>
               UNCHANGED <<sent, subscribedEventNames, thingCleanups, thingAddedL,
                           propertyChangedL, actionStatusL, heartbeat, eventSubs,
                           connectedSubs, removedSubs, modifiedSubs, removeCalls,
                           snapshotReads, changeReads>>]_vars

\* cleanup ran twice, on 'error' and on 'close', after a thing was removed,
\* and callbacks were unregistered
C8_Witness ==
  /\ cleanups = 2
  /\ gone # {}
  /\ Cardinality({sub \in SubIds : removeCalls[sub] = 1}) >= 2

\* C9: once cleanup has run, no notification is recorded and no
\* PROPERTY_STATUS message is sent.
C9_LateReadDiscarded ==
  [][cleanups > 0 =>
       /\ notifications' = notifications
       /\ \A id \in ThingIds :
            sent'[<<"PROPERTY_STATUS", id>>] = sent[<<"PROPERTY_STATUS", id>>]]_vars

\* C10: when a thing the open connection has callbacks on is removed, a
\* connection on that thing stops being open and sends no THING_REMOVED, a
\* connection on all things sends one THING_REMOVED and stays open, and
\* either way none of the connection's callbacks stays on the thing.
C10_RemovalClosesOrNotifies ==
  [][\A id \in ThingIds :
       (id \in things /\ id \notin things' /\ readyState = "OPEN" /\ removedSubs[id] # {})
         => /\ thingId # Undefined =>
                 /\ readyState' # "OPEN"
                 /\ sent'[<<"THING_REMOVED", id>>] = sent[<<"THING_REMOVED", id>>]
            /\ thingId = Undefined =>
                 /\ readyState' = "OPEN"
                 /\ sent'[<<"THING_REMOVED", id>>] = sent[<<"THING_REMOVED", id>>] + 1
            /\ eventSubs'[id] = 0
            /\ connectedSubs'[id] = {}
            /\ removedSubs'[id] = {}
            /\ modifiedSubs'[id] = {}]_vars

\* C11: when the lookup of a connection on one thing rejects, an ERROR goes
\* out on the open socket and the socket stops being open in the same step;
\* from then on no callback of the connection is on any thing and no
\* thingCleanup is stored; and once the socket is closed neither the global
\* listeners nor the heartbeat interval are registered.
C11_NonexistentThingClosed ==
  [][/\ (lookup = "pending" /\ lookup' = "rejected" /\ readyState = "OPEN")
          => /\ sent'[<<"ERROR", Undefined>>] = sent[<<"ERROR", Undefined>>] + 1
             /\ readyState' = "CLOSING"
     /\ lookup' = "rejected"
          => /\ thingId' \in ThingIds
             /\ thingCleanups' = EmptyMap
             /\ \A sub \in SubIds : removeCalls'[sub] = 0
             /\ \A id \in ThingIds :
                  /\ eventSubs'[id] = 0
                  /\ connectedSubs'[id] = {}
                  /\ removedSubs'[id] = {}
                  /\ modifiedSubs'[id] = {}
     /\ (lookup' = "rejected" /\ readyState' = "CLOSED")
          => ~thingAddedL' /\ ~propertyChangedL' /\ ~actionStatusL' /\ ~heartbeat']_vars

\* the lookup rejected on an open socket, the ERROR went out, and the
\* socket was closed after that: cleanup ran
C11_Witness ==
  /\ lookup = "rejected"
  /\ sent[<<"ERROR", Undefined>>] = 1
  /\ readyState = "CLOSED"
  /\ cleanups > 0

(***************************************************************************)
(* The counters and the streams: properties checked under AuditSpec, and   *)
(* under TimedSpec for the times of the intervals.                         *)
(***************************************************************************)
\* the step leaves the four streams empty and the four counters at zero
ClearedNext ==
  /\ requests' = <<>> /\ notifications' = <<>> /\ dbWrites' = <<>> /\ intervals' = <<>>
  /\ localDetectionErrors' = 0 /\ globalDetectionErrors' = 0
  /\ notPersistedErrors' = 0 /\ delayedRequests' = 0

\* the step lowers one of the four counters
CounterLowered ==
  \/ localDetectionErrors' < localDetectionErrors
  \/ globalDetectionErrors' < globalDetectionErrors
  \/ notPersistedErrors' < notPersistedErrors
  \/ delayedRequests' < delayedRequests

\* the step shortens one of the four streams
StreamShortened ==
  \/ Len(requests') < Len(requests)
  \/ Len(notifications') < Len(notifications)
  \/ Len(dbWrites') < Len(dbWrites)
  \/ Len(intervals') < Len(intervals)

\* C15: the PUT handler for sequenceNumber -2 leaves the four streams empty
\* and the four counters at zero, all in its one step: no step shortens a
\* stream or lowers a counter without leaving all eight so.
C15_ResetClearsTogether ==
  [][/\ ClearedNext \/ ~Reset
     /\ (StreamShortened \/ CounterLowered) => ClearedNext]_vars

\* a report showed a request line, a delayed write and a counted error; now
\* the streams are empty and the counters zero, while the write that was
\* delayed and recorded is still known as fulfilled
C15_Witness ==
  /\ response.made
  /\ Len(response.lines) = 1
  /\ response.delayedRequests = 1
  /\ response.localDetectionErrors + response.globalDetectionErrors
       + response.notPersistedErrors = 1
  /\ \E w \in WriteIds : wpc[w] = "fulfilled" /\ wts[w] \in Tokens
  /\ requests = <<>> /\ notifications = <<>> /\ dbWrites = <<>> /\ intervals = <<>>
  /\ localDetectionErrors = 0 /\ globalDetectionErrors = 0
  /\ notPersistedErrors = 0 /\ delayedRequests = 0

\* C16: a step that lowers one of the four counters is a step of the PUT
\* handler for sequenceNumber -2, and the report leaves all four as they are.
C16_CountersOnlyResetLowers ==
  [][/\ CounterLowered => Reset
     /\ \/ UNCHANGED <<localDetectionErrors, globalDetectionErrors,
                       notPersistedErrors, delayedRequests>>
        \/ ~Report]_vars

\* a report was made while a delayed write and an error were counted, and
\* the counters are what the report showed
C16_Witness ==
  /\ response.made
  /\ delayedRequests = 1 /\ response.delayedRequests = 1
  /\ globalDetectionErrors = 1 /\ response.globalDetectionErrors = 1

\* 1 when msg starts with prefix, 0 when not
PrefixCount(msg, prefix) == IF StartsWith(msg, prefix) THEN 1 ELSE 0

\* C17: the consistencyError handler adds one to localDetectionErrors for a
\* message starting with 'Local Detection', to globalDetectionErrors for one
\* starting with 'Global detection concurrent writes', to notPersistedErrors
\* for one starting with 'Global detection update not persisted', and
\* nothing otherwise; it leaves delayedRequests, the streams, this.pending
\* and this.finished as they are.
C17_ConsistencyErrorFrame ==
  [][\A msg \in ErrorMessages :
       ConsistencyError(msg) =>
         /\ localDetectionErrors' = localDetectionErrors + PrefixCount(msg, LocalPrefix)
         /\ globalDetectionErrors' =
              globalDetectionErrors + PrefixCount(msg, ConcurrentPrefix)
         /\ notPersistedErrors' = notPersistedErrors + PrefixCount(msg, NotPersistedPrefix)
         /\ UNCHANGED <<delayedRequests, requests, notifications, dbWrites, intervals,
                        pending, finished>>]_vars

\* a not-persisted error was counted while a delayed write waits in
\* this.pending and a token is marked in this.finished
C17_Witness ==
  /\ notPersistedErrors = 1
  /\ localDetectionErrors = 0 /\ globalDetectionErrors = 0
  /\ delayedRequests = 1
  /\ DOMAIN pending # {}
  /\ finished # <<>>

\* C18: every interval in this.intervals has a start and a finish, and its
\* finish is not before its start, whichever branch pushed it.
C18_FinishNotBeforeStart ==
  \A i \in 1..Len(intervals) :
    /\ {"start", "finish"} \subseteq DOMAIN intervals[i]
    /\ intervals[i].finish >= intervals[i].start

\* two intervals were pushed, one by the completion signal and one by the
\* acknowledgment that found its token marked, and time passed during one
C18_Witness ==
  /\ Len(intervals) = 2
  /\ \E w \in WriteIds : wpath[w] = "signal"
  /\ \E w \in WriteIds : wpath[w] = "finished"
  /\ \E i \in 1..Len(intervals) : intervals[i].finish > intervals[i].start

(***************************************************************************)
(* The 'message' listener and onEvent: properties checked under MsgSpec.   *)
(***************************************************************************)
\* const id = request.id || thingId
RequestedId(request) == IF request.id # Undefined THEN request.id ELSE thingId

\* the text does not parse, or the request names no thing, or a thing
\* AddonManager has no device for, or a messageType the switch has no case for
IsRefused(parses, request) ==
  \/ ~parses
  \/ RequestedId(request) = Undefined
  \/ ~GetDevice(RequestedId(request))
  \/ request.messageType \notin {"setProperty", "addEventSubscription", "requestAction"}

\* the ERROR messages of the 'message' listener's own branches
RefusalMessages ==
  {<<"ERROR", "Parsing request failed", Undefined>>}
    \cup ({"ERROR"} \X {"Missing thing id", "Thing not found", "Unknown messageType"}
                    \X RequestNos)

\* what C12 says of a step that handles a message that is refused
RefusedEffect ==
  /\ readyState = "OPEN" =>
       \E e \in RefusalMessages : sent' = [sent EXCEPT ![e] = @ + 1]
  /\ UNCHANGED <<readyState, subscribedEventNames, thingCleanups,
                 thingAddedL, propertyChangedL, actionStatusL, heartbeat,
                 eventSubs, connectedSubs, removedSubs, modifiedSubs,
                 removeCalls, cleanups, ops>>

\* C12: the 'message' listener, given a text that does not parse, a request
\* for a thing without device or a request of unknown messageType, hands one
\* ERROR to the open socket and nothing else, leaves readyState as it is and
\* changes no callback, no stored thingCleanup, no listener, no timer, no key
\* of subscribedEventNames and no call in flight; and whatever was refused
\* before, a request that is not refused has its effect: the keys of an
\* addEventSubscription are in subscribedEventNames, the device.setProperty
\* calls of a setProperty are made.
C12_RefusedMessageLeavesConnection ==
  [][/\ Message(FALSE, NoRequest) => RefusedEffect
     /\ \A request \in Requests :
          Message(TRUE, request) =>
            /\ IsRefused(TRUE, request) => RefusedEffect
            /\ (~IsRefused(TRUE, request) /\ request.messageType = "addEventSubscription")
                 => subscribedEventNames' = subscribedEventNames \cup request.data
            /\ (~IsRefused(TRUE, request) /\ request.messageType = "setProperty")
                 => ops'[received'].sets = Cardinality(request.data)]_vars

\* the first message was refused for its messageType and answered with an
\* ERROR, the socket is open, and the second message, an addEventSubscription,
\* put its keys into subscribedEventNames
C12_Witness ==
  /\ sent[<<"ERROR", "Unknown messageType", RequestNo(1)>>] = 1
  /\ received = 2
  /\ readyState = "OPEN"
  /\ subscribedEventNames # {}
  /\ \A id \in things : eventSubs[id] > 0

\* the ERROR of Promise.all's .catch for the n-th message
SetError(n) == <<"ERROR", "setProperty failed", RequestNo(n)>>

\* C13: a setProperty request with k keys makes k device.setProperty calls
\* and sends nothing itself; of the calls that settle, the first that fails
\* hands one ERROR carrying the request to the open socket, and every other
\* one, failing or not, sends nothing; so at most one such ERROR is ever sent
\* for a request, and none while no call of it has failed.
C13_OneErrorPerSetProperty ==
  [][/\ \A request \in Requests :
          (request.messageType = "setProperty" /\ ~IsRefused(TRUE, request)
             /\ Message(TRUE, request))
            => /\ ops'[received'].sets = Cardinality(request.data)
               /\ ops'[received'].setsLeft = Cardinality(request.data)
               /\ sent' = sent
     /\ \A n \in 1..MaxInputs, ok \in BOOLEAN :
          SetPropertySettles(n, ok) =>
            IF ~ok /\ ops[n].setsFailed = 0 /\ readyState = "OPEN"
              THEN sent' = [sent EXCEPT ![SetError(n)] = @ + 1]
              ELSE sent' = sent
     /\ \A n \in 1..MaxInputs :
          /\ sent'[SetError(n)] <= 1
          /\ ops'[n].setsFailed = 0 => sent'[SetError(n)] = 0]_vars

\* the first request had two calls, both failed, and one ERROR was sent for
\* it; the second had a call that succeeded, and none was sent for it
C13_Witness ==
  /\ ops[1].sets = 2 /\ ops[1].setsFailed = 2 /\ sent[SetError(1)] = 1
  /\ ops[2].sets >= 1 /\ ops[2].setsLeft = 0 /\ ops[2].setsFailed = 0
  /\ sent[SetError(2)] = 0

\* C14: an EVENT message was sent for an event only if the event's name is a
\* key that an addEventSubscription request put into subscribedEventNames.
C14_EventOnlyIfSubscribed ==
  \A id \in ThingIds, name \in Names :
    sent[<<"EVENT", id, name>>] > 0 => name \in subscribedEventNames

(***************************************************************************)
(* The report: properties checked under ReportSpec.                        *)
(***************************************************************************)
\* the PUT handler for sequenceNumber -1 has run
Reported == response.made \/ response.threw

\* the values in cassie.dbWrites
Logged == {dbWrites[i] : i \in 1..Len(dbWrites)}

\* C19: the lostUpdates of a report hold every value from 0 up to the
\* largest value in cassie.dbWrites that is not in cassie.dbWrites, and no
\* value that is in it.
C19_MissingValuesFlagged ==
  Reported =>
    /\ \A v \in ReportValues :
         (v \notin Logged /\ \E u \in Logged : v < u) => Includes(response.lostUpdates, v)
    /\ \A i \in 1..Len(response.lostUpdates) : response.lostUpdates[i] \notin Logged

\* how many of the first k lines are flagged as lost
LostBefore(lines, k) ==
  Cardinality({j \in 1..k : lines[j].verdict = "FLAGGED AS LOST"})

\* C20: a report has a line for every request, in order; the line of a
\* request whose value is in lostUpdates is flagged as lost and the next
\* line is at the same notifPointer; the line of any other request whose
\* notification has another value says WRONG VALUE FROM DATABASE when the
\* value is cassie.dbWrites[notifPointer] and REORDERED BY GATEWAY when not,
\* every remaining line has neither mark, and the next line is at the next
\* notifPointer; so that notifPointer is reqPointer less the lines flagged
\* as lost before.
C20_TwoCursorClassification ==
  Reported =>
    /\ response.made
    /\ Len(response.lines) = Len(requests)
    /\ \A k \in 1..Len(response.lines) :
         LET line == response.lines[k]
             n == line.notifPointer
             flagged == Includes(response.lostUpdates, line.value)
             differs == n < Len(notifications) /\ notifications[n + 1].value # line.value
         IN /\ line.reqPointer = k - 1
            /\ line.value = requests[k].value
            /\ n = (k - 1) - LostBefore(response.lines, k - 1)
            /\ line.verdict =
                 IF flagged THEN "FLAGGED AS LOST"
                 ELSE IF differs
                   THEN IF n < Len(dbWrites) /\ dbWrites[n + 1] = line.value
                          THEN "WRONG VALUE FROM DATABASE"
                          ELSE "REORDERED BY GATEWAY"
                 ELSE IF n < Len(notifications) THEN "" ELSE "lost"

\* the records carry the values 0..n-1 in order
InOrder(records, n) ==
  /\ Len(records) = n
  /\ \A i \in 1..n : records[i].value = i - 1

\* C21: when the requests carry 0..N-1 in order, the notifications carry the
\* same values in the same order and the values written to the database are
\* those of the range but one value k, a report that was asked for marks
\* request k as lost and every other request as correct
C21_OneLostOthersCorrect ==
  \A n \in 1..Len(requests), k \in 0..(Len(requests) - 1) :
    (/\ response # NoResponse
     /\ InOrder(requests, n) /\ InOrder(notifications, n)
     /\ Logged = (0..(n - 1)) \ {k})
    => /\ response.made
       /\ Len(response.lines) = n
       /\ \A i \in 1..n :
            response.lines[i].verdict = IF i = k + 1 THEN "FLAGGED AS LOST" ELSE ""

(***************************************************************************)
(* The summary of a run: properties checked under SummarySpec.             *)
(***************************************************************************)
\* the positions of cassie.intervals
Positions == 1..Len(intervals)

\* the interval at position j was created before the one at position i
CreatedBefore(j, i) == intervals[j].id < intervals[i].id

\* the interval at position j comes before the one at position i in the
\* order of start times, intervals of equal start in the order of the list
StartsBefore(j, i) ==
  \/ intervals[j].start < intervals[i].start
  \/ intervals[j].start = intervals[i].start /\ j < i

\* C22, as the spec states it: the overlap count of a report is the number
\* of pairs of intervals (i, j), i created after j, with i's finish before
\* j's finish
C22_OverlapCountsPairs ==
  response.made =>
    response.overlapping =
      Cardinality({p \in Positions \X Positions :
                     /\ CreatedBefore(p[2], p[1])
                     /\ intervals[p[1]].finish < intervals[p[2]].finish})

\* C22, amended: the overlap count of a report is the number of intervals
\* i for which at least one interval j that comes before i in the order of
\* start times (intervals of equal start in the order they were recorded
\* in) has a finish later than i's finish
C22_OverlapCountsIntervals ==
  [][Report /\ response'.made =>
       response'.overlapping =
         Cardinality({i \in Positions :
                        \E j \in Positions :
                          /\ StartsBefore(j, i)
                          /\ intervals[j].finish > intervals[i].finish})]_vars

\* a report was made over three intervals of which the last one started
\* finished before both others, and it counted one overlap
C22_Witness ==
  /\ response.made
  /\ response.overlapping = 1
  /\ \E i \in Positions :
       Cardinality({j \in Positions : /\ StartsBefore(j, i)
                                      /\ intervals[j].finish > intervals[i].finish}) = 2

\* C23: the overlap count of a report is the number of intervals that
\* finish before at least one interval created earlier, in whatever order
\* the intervals were recorded
C23_OverlapByCreation ==
  response.made =>
    response.overlapping =
      Cardinality({i \in Positions :
                     \E j \in Positions :
                       /\ CreatedBefore(j, i)
                       /\ intervals[i].finish < intervals[j].finish})

\* C24: the average time between web app updates of a report is the mean
\* of the differences of consecutive notification times (their sum is the
\* last time less the first), rounded to the nearest integer, and 0 when
\* there are fewer than 2 notifications
C24_AverageBetweenNotifications ==
  response.made =>
    LET n == Len(notifications)
        total == notifications[n].time - notifications[1].time
    IN IF n < 2 THEN response.avgUpdate = 0
       ELSE /\ 2 * (n - 1) * response.avgUpdate <= 2 * total + (n - 1)
            /\ 2 * (n - 1) * response.avgUpdate > 2 * total - (n - 1)

\* a report was made over three notifications whose differences are 0 and
\* 1: their mean 1/2 is reported as 1
C24_Witness ==
  /\ response.made
  /\ Len(notifications) = 3
  /\ notifications[2].time - notifications[1].time = 0
  /\ notifications[3].time - notifications[2].time = 1
  /\ response.avgUpdate = 1

\* C25: a report that was asked for has completed without raising an
\* error, whatever the streams hold, with exactly one line per request
C25_ReportCompletes ==
  Reported =>
    /\ ~response.threw
    /\ response.made
    /\ Len(response.lines) = Len(requests)

\* C27: cassie.intervals never holds more entries than cassie.dbWrites
C27_IntervalsWithinWrites == Len(intervals) <= Len(dbWrites)

\* C28: a report leaves the contents and the order of cassie.requests,
\* cassie.notifications, cassie.dbWrites and cassie.intervals as they were
C28_ReportReadOnly ==
  [][Report => UNCHANGED <<requests, notifications, dbWrites, intervals>>]_vars

(***************************************************************************)
(* The subscriptions of a connection: checked under HubSpec.               *)
(***************************************************************************)
\* the addThing calls of which a callback is subscribed to thing id
Subscribed(id) == connectedSubs[id] \cup removedSubs[id] \cup modifiedSubs[id]

\* C26: for each thing at most one addThing call has its callbacks
\* subscribed, onEvent is subscribed at most once, and the call whose
\* callbacks are subscribed is the one whose thingCleanup is stored in
\* thingCleanups
C26_OneSubscriptionPerDevice ==
  \A id \in ThingIds :
    /\ Cardinality(Subscribed(id)) <= 1
    /\ eventSubs[id] <= 1
    /\ \A sub \in Subscribed(id) :
         id \in DOMAIN thingCleanups /\ thingCleanups[id] = sub

(***************************************************************************)
(* The commands of a connection on one thing: checked under ScopedSpec.    *)
(***************************************************************************)
\* C29: on a connection on one thing, every device.setProperty and every
\* action a message has started is on the device of that thing
C29_CommandsStayOnDevice ==
  thingId # Undefined =>
    \A n \in 1..MaxInputs :
      ops[n].sets > 0 \/ ops[n].actionsLeft > 0 => ops[n].device = thingId

====
